---------------------------- MODULE Spec2Model ----------------------------
(***************************************************************************)
(* State-machine model of the binary-heap priority queue of                *)
(* src/src/priority_queue.py over the Task objects of src/src/task.py.     *)
(*                                                                         *)
(* A Task is a Python object: the queue's list holds references to it, and *)
(* its priority is a field that update_priority overwrites in place.  The  *)
(* model therefore keeps the references (task identities 1..NumTasks) in   *)
(* `heap` and the priority field of every Task object, inside or outside   *)
(* the queue, in `prio`.                                                   *)
(***************************************************************************)
EXTENDS Integers, Sequences, FiniteSets, TLC

\* Bounds of the model.
NumTasks == 3     \* Task objects the caller owns
MaxPrio  == 2     \* priorities range over 1..MaxPrio

Tasks == 1..NumTasks
Prios == 1..MaxPrio

VARIABLES
    heap,         \* PriorityQueue.heap: the list of Task references, root first
    is_max_heap,  \* PriorityQueue.is_max_heap, fixed at construction
    prio,         \* Task.priority of every Task object
    op,           \* the method called last ("init" after construction)
    arg,          \* the Task passed to that call (0: the method takes none)
    ret,          \* what the call returned or raised
    ret_item,     \* the Task returned by peek/extract (0: none), the time
                  \* returned by time_until_deadline
    index,        \* the local `index` of increase_key/decrease_key, and of a
                  \* running _heapify_up/_heapify_down (-1: none)
    out,          \* priorities returned by the extractions made in a row
    tasks,        \* the list of Task references handed to schedule_tasks
    attrs,        \* arrival_time, deadline and execution_time of every Task
    results,      \* the list schedule_tasks returned last
    current_time, \* TaskScheduler.current_time, and the current_time a Task
                  \* method was called with
    stats,        \* what get_statistics returned last (<< >>: not called)
    n_calls,      \* schedule_tasks calls made on this TaskScheduler
    pc,           \* where a schedule_tasks call run step by step stands
                  \* ("idle": none was started)
    pending,      \* the tasks its insertion loop has still to insert
    other,        \* the right-hand Task of a Task comparison (0: none)
    arr,          \* the list a function of heapsort.py was called with, as
                  \* the caller sees it after the call
    old_arr,      \* what that list held when the call was made
    key_fn,       \* the key function passed to the functions of heapsort.py
    inplace,      \* the inplace argument of the call, when it was heapsort
    returned,     \* the list that heapsort call returned (<< >>: no list)
    returned_arr  \* whether that list is the very list object passed in

pq_vars == <<heap, is_max_heap, prio, op, arg, ret, ret_item, index, out>>

sort_vars == <<arr, old_arr, key_fn, inplace, returned, returned_arr>>

sched_vars == <<tasks, attrs, results, current_time, stats, n_calls,
                pc, pending, other, sort_vars>>

vars == <<heap, is_max_heap, prio, op, arg, ret, ret_item, index, out,
          tasks, attrs, results, current_time, stats, n_calls, pc, pending,
          other, arr, old_arr, key_fn, inplace, returned, returned_arr>>

---------------------------------------------------------------------------
\* Python lists are 0-based: h[i] of the source is At(h, i).
At(h, i) == h[i + 1]

Range(h) == {h[k] : k \in 1..Len(h)}

\* a[i], a[j] = a[j], a[i]
Swap(h, i, j) == [h EXCEPT ![i + 1] = h[j + 1], ![j + 1] = h[i + 1]]

\* list.pop(): the list without its last element.
Pop(h) == SubSeq(h, 1, Len(h) - 1)

SetMin(S) == CHOOSE x \in S : \A y \in S : x <= y

---------------------------------------------------------------------------
\* Equality of objects that define no __eq__: two Tasks are equal when they
\* are the same object.
task_is(p, a, b) == a = b

\* Task.__eq__: two Tasks are equal when their priorities are.
task_eq(p, a, b) == p[a] = p[b]

\* Task.__lt__, __gt__, __le__, __ge__
task_lt(p, a, b) == p[a] < p[b]
task_gt(p, a, b) == p[a] > p[b]
task_le(p, a, b) == p[a] <= p[b]
task_ge(p, a, b) == p[a] >= p[b]

\* is_overdue with a deadline that is passed once it is reached.
is_overdue_at_deadline(deadline, now) ==
    IF deadline = << >> THEN FALSE ELSE now >= deadline[1]

\* Task.is_overdue(current_time), for a Task of the given deadline
\* (<< >>: None).
is_overdue(deadline, now) ==
    IF deadline = << >> THEN FALSE ELSE now > deadline[1]

Max(a, b) == IF a >= b THEN a ELSE b

\* time_until_deadline without the floor at 0.
time_until_deadline_signed(deadline, now) ==
    IF deadline = << >> THEN << >> ELSE <<deadline[1] - now>>

\* Task.time_until_deadline(current_time): << >> for None, else <<time>>.
time_until_deadline(deadline, now) ==
    IF deadline = << >> THEN << >> ELSE <<Max(0, deadline[1] - now)>>

\* Task.update_priority: overwrite the priority field of Task t.
update_priority(p, t, new_priority) == [p EXCEPT ![t] = new_priority]

\* PriorityQueue.key (default): the priority of a Task.
key(p, x) == p[x]

\* Mutant of compare: the mode flag is ignored, every queue orders as a max-heap.
compare_ignores_mode(mx, p, a, b) == key(p, a) > key(p, b)

\* PriorityQueue._compare: TRUE if a should be above b in the heap.
compare(mx, p, a, b) ==
    LET val_a == key(p, a)
        val_b == key(p, b)
    IN  IF mx THEN val_a > val_b ELSE val_a < val_b

\* _heapify_up that copies the element into its parent's slot instead of
\* swapping the two.
RECURSIVE heapify_up_copies(_, _, _, _)
heapify_up_copies(h, mx, p, idx) ==
    IF idx > 0
    THEN LET parent == (idx - 1) \div 2
         IN  IF compare(mx, p, At(h, idx), At(h, parent))
             THEN heapify_up_copies([h EXCEPT ![parent + 1] = At(h, idx)],
                                    mx, p, parent)
             ELSE h
    ELSE h

\* A sift-up that also swaps with a parent of equal priority.
RECURSIVE heapify_up_swaps_ties(_, _, _, _)
heapify_up_swaps_ties(h, mx, p, idx) ==
    IF idx > 0
    THEN LET parent == (idx - 1) \div 2
         IN  IF ~compare(mx, p, At(h, parent), At(h, idx))
             THEN heapify_up_swaps_ties(Swap(h, idx, parent), mx, p, parent)
             ELSE h
    ELSE h

\* PriorityQueue._heapify_up: bubble the element at idx up.
RECURSIVE heapify_up(_, _, _, _)
heapify_up(h, mx, p, idx) ==
    IF idx > 0
    THEN LET parent == (idx - 1) \div 2
         IN  IF compare(mx, p, At(h, idx), At(h, parent))
             THEN heapify_up(Swap(h, idx, parent), mx, p, parent)
             ELSE h
    ELSE h

\* Mutant of heapify_down: the arguments of _compare are swapped, so a node
\* trades places with a child it should stay above.
RECURSIVE heapify_down_swapped(_, _, _, _)
heapify_down_swapped(h, mx, p, idx) ==
    LET n     == Len(h)
        left  == 2 * idx + 1
        right == 2 * idx + 2
        c1    == IF left < n /\ compare(mx, p, At(h, idx), At(h, left))
                 THEN left ELSE idx
        largest_or_smallest ==
                 IF right < n /\ compare(mx, p, At(h, c1), At(h, right))
                 THEN right ELSE c1
    IN  IF largest_or_smallest = idx
        THEN h
        ELSE heapify_down_swapped(Swap(h, idx, largest_or_smallest), mx, p,
                                  largest_or_smallest)

\* PriorityQueue._heapify_down: bubble the element at idx down.
RECURSIVE heapify_down(_, _, _, _)
heapify_down(h, mx, p, idx) ==
    LET n     == Len(h)
        left  == 2 * idx + 1
        right == 2 * idx + 2
        c1    == IF left < n /\ compare(mx, p, At(h, left), At(h, idx))
                 THEN left ELSE idx
        largest_or_smallest ==
                 IF right < n /\ compare(mx, p, At(h, right), At(h, c1))
                 THEN right ELSE c1
    IN  IF largest_or_smallest = idx
        THEN h
        ELSE heapify_down(Swap(h, idx, largest_or_smallest), mx, p,
                          largest_or_smallest)

\* list.index(item) as increase_key/decrease_key call it: the first position
\* whose element is the item or compares equal to it (Task.__eq__), and -1
\* where the source catches ValueError.
list_index(h, p, item) ==
    LET hits == {i \in 0..(Len(h) - 1) :
                    At(h, i) = item \/ task_eq(p, At(h, i), item)}
    IN  IF hits = {} THEN -1 ELSE SetMin(hits)

\* What extract_max / extract_min leave of a non-empty list: the only element
\* popped, or the last element moved into the root slot and bubbled down.
pop_root(h, mx, p) ==
    IF Len(h) = 1
    THEN Pop(h)
    ELSE heapify_down([Pop(h) EXCEPT ![1] = At(h, Len(h) - 1)], mx, p, 0)

\* PriorityQueue.is_empty / size
is_empty(h) == Len(h) = 0
size(h) == Len(h)

---------------------------------------------------------------------------
\* PriorityQueue.__init__ with either mode; the caller's Task objects carry
\* any priorities.
Init ==
    /\ heap = << >>
    /\ is_max_heap \in BOOLEAN
    /\ prio \in [Tasks -> Prios]
    /\ op = "init"
    /\ arg = 0
    /\ ret = "None"
    /\ ret_item = 0
    /\ index = -1
    /\ out = << >>
    /\ tasks = << >>
    /\ attrs = << >>
    /\ results = << >>
    /\ current_time = 0
    /\ stats = << >>
    /\ n_calls = 0
    /\ pc = "idle"
    /\ pending = << >>
    /\ other = 0
    /\ arr = << >>
    /\ old_arr = << >>
    /\ key_fn = "identity"
    /\ inplace = TRUE
    /\ returned = << >>
    /\ returned_arr = FALSE

\* PriorityQueue.insert(item), for a Task that is not in the queue.
insert(item) ==
    /\ item \notin Range(heap)
    /\ heap' = heapify_up(Append(heap, item), is_max_heap, prio, Len(heap))
    /\ UNCHANGED sched_vars
    /\ op' = "insert"
    /\ arg' = item
    /\ ret' = "None"
    /\ ret_item' = 0
    /\ index' = -1
    /\ out' = << >>
    /\ UNCHANGED <<is_max_heap, prio>>

\* Mutant of extract_max: the only element is returned without being popped.
extract_max_nopop ==
    /\ UNCHANGED sched_vars
    /\ op' = "extract_max"
    /\ arg' = 0
    /\ index' = -1
    /\ UNCHANGED <<is_max_heap, prio>>
    /\ IF is_empty(heap)
       THEN /\ ret' = "IndexError"
            /\ ret_item' = 0
            /\ UNCHANGED <<heap, out>>
       ELSE /\ ret' = "item"
            /\ ret_item' = At(heap, 0)
            /\ out' = Append(out, prio[At(heap, 0)])
            /\ heap' = IF Len(heap) = 1 THEN heap
                       ELSE pop_root(heap, is_max_heap, prio)

\* PriorityQueue.extract_max
extract_max ==
    /\ UNCHANGED sched_vars
    /\ op' = "extract_max"
    /\ arg' = 0
    /\ index' = -1
    /\ UNCHANGED <<is_max_heap, prio>>
    /\ IF is_empty(heap)
       THEN /\ ret' = "IndexError"
            /\ ret_item' = 0
            /\ UNCHANGED <<heap, out>>
       ELSE /\ ret' = "item"
            /\ ret_item' = At(heap, 0)
            /\ out' = Append(out, prio[At(heap, 0)])
            /\ heap' = pop_root(heap, is_max_heap, prio)

\* Mutant of extract_min: an empty queue answers None, as peek does, instead
\* of raising.
extract_min_noraise ==
    /\ UNCHANGED sched_vars
    /\ op' = "extract_min"
    /\ arg' = 0
    /\ index' = -1
    /\ UNCHANGED <<is_max_heap, prio>>
    /\ IF is_empty(heap)
       THEN /\ ret' = "None"
            /\ ret_item' = 0
            /\ UNCHANGED <<heap, out>>
       ELSE /\ ret' = "item"
            /\ ret_item' = At(heap, 0)
            /\ out' = Append(out, prio[At(heap, 0)])
            /\ heap' = pop_root(heap, is_max_heap, prio)

\* PriorityQueue.extract_min
extract_min ==
    /\ UNCHANGED sched_vars
    /\ op' = "extract_min"
    /\ arg' = 0
    /\ index' = -1
    /\ UNCHANGED <<is_max_heap, prio>>
    /\ IF is_empty(heap)
       THEN /\ ret' = "IndexError"
            /\ ret_item' = 0
            /\ UNCHANGED <<heap, out>>
       ELSE /\ ret' = "item"
            /\ ret_item' = At(heap, 0)
            /\ out' = Append(out, prio[At(heap, 0)])
            /\ heap' = pop_root(heap, is_max_heap, prio)

\* Mutant of peek: the root is taken off the list (heap.pop(0)) instead of read.
peek_pops ==
    /\ UNCHANGED sched_vars
    /\ op' = "peek"
    /\ arg' = 0
    /\ index' = -1
    /\ IF is_empty(heap)
       THEN ret' = "None" /\ ret_item' = 0 /\ heap' = heap
       ELSE ret' = "item" /\ ret_item' = At(heap, 0) /\ heap' = Tail(heap)
    /\ UNCHANGED <<is_max_heap, prio, out>>

\* Mutant of peek: an empty queue raises, as the extractions do.
peek_raises ==
    /\ UNCHANGED sched_vars
    /\ op' = "peek"
    /\ arg' = 0
    /\ index' = -1
    /\ IF is_empty(heap)
       THEN ret' = "IndexError" /\ ret_item' = 0
       ELSE ret' = "item" /\ ret_item' = At(heap, 0)
    /\ UNCHANGED <<heap, is_max_heap, prio, out>>

\* PriorityQueue.peek
peek ==
    /\ UNCHANGED sched_vars
    /\ op' = "peek"
    /\ arg' = 0
    /\ index' = -1
    /\ IF is_empty(heap)
       THEN ret' = "None" /\ ret_item' = 0
       ELSE ret' = "item" /\ ret_item' = At(heap, 0)
    /\ UNCHANGED <<heap, is_max_heap, prio, out>>

\* PriorityQueue.increase_key(item, new_priority)
increase_key(item, new_priority) ==
    LET i == list_index(heap, prio, item)
    IN  /\ UNCHANGED sched_vars
        /\ op' = "increase_key"
        /\ arg' = item
        /\ ret_item' = 0
        /\ index' = i
        /\ out' = << >>
        /\ UNCHANGED is_max_heap
        /\ IF i = -1
           THEN /\ ret' = "False"
                /\ UNCHANGED <<heap, prio>>
           ELSE /\ ret' = "True"
                /\ prio' = update_priority(prio, item, new_priority)
                /\ heap' = heapify_up(heap, is_max_heap, prio', i)

\* decrease_key that bubbles the item up, as increase_key does.
decrease_key_sifts_up(item, new_priority) ==
    LET i == list_index(heap, prio, item)
    IN  /\ UNCHANGED sched_vars
        /\ op' = "decrease_key"
        /\ arg' = item
        /\ ret_item' = 0
        /\ index' = i
        /\ out' = << >>
        /\ UNCHANGED is_max_heap
        /\ IF i = -1
           THEN /\ ret' = "False"
                /\ UNCHANGED <<heap, prio>>
           ELSE /\ ret' = "True"
                /\ prio' = update_priority(prio, item, new_priority)
                /\ heap' = heapify_up(heap, is_max_heap, prio', i)

\* PriorityQueue.decrease_key(item, new_priority)
decrease_key(item, new_priority) ==
    LET i == list_index(heap, prio, item)
    IN  /\ UNCHANGED sched_vars
        /\ op' = "decrease_key"
        /\ arg' = item
        /\ ret_item' = 0
        /\ index' = i
        /\ out' = << >>
        /\ UNCHANGED is_max_heap
        /\ IF i = -1
           THEN /\ ret' = "False"
                /\ UNCHANGED <<heap, prio>>
           ELSE /\ ret' = "True"
                /\ prio' = update_priority(prio, item, new_priority)
                /\ heap' = heapify_down(heap, is_max_heap, prio', i)

\* update_priority that refuses to change a Task held by the queue.
call_update_priority_guarded(item, new_priority) ==
    /\ UNCHANGED sched_vars
    /\ op' = "update_priority"
    /\ arg' = item
    /\ ret_item' = 0
    /\ index' = -1
    /\ out' = << >>
    /\ IF item \in Range(heap)
       THEN ret' = "ValueError" /\ prio' = prio
       ELSE ret' = "None" /\ prio' = update_priority(prio, item, new_priority)
    /\ UNCHANGED <<heap, is_max_heap>>

\* item.update_priority(new_priority) called by the owner of the Task, not
\* through the queue.
call_update_priority(item, new_priority) ==
    /\ UNCHANGED sched_vars
    /\ op' = "update_priority"
    /\ arg' = item
    /\ ret' = "None"
    /\ ret_item' = 0
    /\ index' = -1
    /\ out' = << >>
    /\ prio' = update_priority(prio, item, new_priority)
    /\ UNCHANGED <<heap, is_max_heap>>

\* Any call of the queue's interface.
Next ==
    \/ \E item \in Tasks : insert(item)
    \/ extract_max
    \/ extract_min
    \/ peek
    \/ \E item \in Tasks, new_priority \in Prios : increase_key(item, new_priority)
    \/ \E item \in Tasks, new_priority \in Prios : decrease_key(item, new_priority)

Spec == Init /\ [][Next]_vars

\* The queue used through insert, extraction and peek only: no key update.
NextNoUpdate ==
    \/ \E item \in Tasks : insert(item)
    \/ extract_max
    \/ extract_min
    \/ peek

SpecNoUpdate == Init /\ [][NextNoUpdate]_vars

---------------------------------------------------------------------------
\* The queue used through insert, extraction and peek, while the owner of
\* the Tasks changes their priorities directly.
NextDirect ==
    \/ \E item \in Tasks : insert(item)
    \/ extract_max
    \/ extract_min
    \/ peek
    \/ \E item \in Tasks, new_priority \in Prios :
           call_update_priority(item, new_priority)

SpecDirect == Init /\ [][NextDirect]_vars

\* Bound of the runs with pairwise distinct priorities.
MaxKey == 4   \* their priorities range over 1..MaxKey

Keys == 1..MaxKey

\* A max-heap over Tasks of pairwise distinct priorities.
InitDistinct ==
    /\ heap = << >>
    /\ is_max_heap = TRUE
    /\ prio \in {p \in [Tasks -> Keys] :
                    \A s, t \in Tasks : s # t => p[s] # p[t]}
    /\ op = "init"
    /\ arg = 0
    /\ ret = "None"
    /\ ret_item = 0
    /\ index = -1
    /\ out = << >>
    /\ tasks = << >>
    /\ attrs = << >>
    /\ results = << >>
    /\ current_time = 0
    /\ stats = << >>
    /\ n_calls = 0
    /\ pc = "idle"
    /\ pending = << >>
    /\ other = 0
    /\ arr = << >>
    /\ old_arr = << >>
    /\ key_fn = "identity"
    /\ inplace = TRUE
    /\ returned = << >>
    /\ returned_arr = FALSE

\* No other Task has priority new_priority.
Unused(item, new_priority) ==
    \A t \in Tasks : t # item => prio[t] # new_priority

\* insert, extract_max, increase_key with a priority not below the item's
\* and decrease_key with a priority not above it, the priorities staying
\* pairwise distinct.
NextDistinct ==
    \/ \E item \in Tasks : insert(item)
    \/ extract_max
    \/ \E item \in Tasks, new_priority \in Keys :
           /\ new_priority >= prio[item]
           /\ Unused(item, new_priority)
           /\ increase_key(item, new_priority)
    \/ \E item \in Tasks, new_priority \in Keys :
           /\ new_priority <= prio[item]
           /\ Unused(item, new_priority)
           /\ decrease_key(item, new_priority)

SpecDistinct == InitDistinct /\ [][NextDistinct]_vars

\* Definitions the properties are stated with.

KeyOps == {"increase_key", "decrease_key"}
ExtractOps == {"extract_max", "extract_min"}

\* The heap invariant of list h: no parent is below a child in the
\* configured ordering.
HeapOK(h, mx, p) ==
    \A i \in 1..(Len(h) - 1) :
        LET parent == (i - 1) \div 2
        IN  IF mx THEN key(p, At(h, parent)) >= key(p, At(h, i))
                  ELSE key(p, At(h, parent)) <= key(p, At(h, i))

\* An insertion loop that skips an item equal (by priority) to one already
\* in the heap.
RECURSIVE insert_all_unique(_, _, _, _)
insert_all_unique(h, ts, mx, p) ==
    IF ts = << >>
    THEN h
    ELSE IF \E i \in 1..Len(h) : p[h[i]] = p[Head(ts)]
         THEN insert_all_unique(h, Tail(ts), mx, p)
         ELSE insert_all_unique(heapify_up(Append(h, Head(ts)), mx, p, Len(h)),
                                Tail(ts), mx, p)

\* The insertion loop of the tests: insert the items of ts, in order, into h.
RECURSIVE insert_all(_, _, _, _)
insert_all(h, ts, mx, p) ==
    IF ts = << >>
    THEN h
    ELSE insert_all(heapify_up(Append(h, Head(ts)), mx, p, Len(h)),
                    Tail(ts), mx, p)

\* The draining loop of the tests: extract until the queue is empty; the
\* priorities of the items in the order they come out.
RECURSIVE extract_all(_, _, _)
extract_all(h, mx, p) ==
    IF is_empty(h)
    THEN << >>
    ELSE <<key(p, At(h, 0))>> \o extract_all(pop_root(h, mx, p), mx, p)

---------------------------------------------------------------------------
(***************************************************************************)
(* TaskScheduler of src/src/scheduler.py.  The Tasks of a run are the      *)
(* references 1..n of the list handed to schedule_tasks; their priority    *)
(* field is prio[t] and their other fields are attrs[t].  Times are whole  *)
(* numbers; an Optional value is << >> (None) or <<v>>.  task_id is the    *)
(* Task's reference number.                                                *)
(***************************************************************************)

\* Bounds of the scheduler runs.
MaxSchedPrio == 3   \* priorities of scheduled Tasks range over 1..MaxSchedPrio
MaxExec      == 1   \* execution_time ranges over 0..MaxExec
MaxArrival   == 1   \* arrival_time ranges over 0..MaxArrival
MaxDeadline  == 1   \* a deadline is None or in 0..MaxDeadline
MaxTimed     == 2   \* Tasks of a run whose arrival times or deadlines vary
MaxCalls     == 2   \* schedule_tasks calls made on one TaskScheduler

SchedPrios == 1..MaxSchedPrio
Deadlines  == {<< >>} \cup {<<d>> : d \in 0..MaxDeadline}

\* Task fields with their dataclass defaults: deadline None, execution_time 1.
TaskAttrs(arrivals, deadlines, execs) ==
    [arrival_time : arrivals, deadline : deadlines, execution_time : execs]

\* SchedulingResult(task_id, start_time, completion_time, deadline_met, wait_time)
SchedulingResult(task_id, start_time, completion_time, deadline_met, wait_time) ==
    [task_id |-> task_id, start_time |-> start_time,
     completion_time |-> completion_time, deadline_met |-> deadline_met,
     wait_time |-> wait_time]

\* The while loop with an extraction that moves the last item to the root
\* and does not sift it down.
RECURSIVE execute_unsifted(_, _, _, _, _)
execute_unsifted(h, p, at, clock, res) ==
    IF is_empty(h)
    THEN [heap |-> h, current_time |-> clock, results |-> res]
    ELSE LET task            == At(h, 0)
             start_time      == clock
             wait_time       == start_time - at[task].arrival_time
             completion_time == start_time + at[task].execution_time
             deadline_met    == IF at[task].deadline # << >>
                                THEN completion_time <= at[task].deadline[1]
                                ELSE TRUE
             result == SchedulingResult(task, start_time, completion_time,
                                        deadline_met, wait_time)
         IN  execute_unsifted(Pop(Swap(h, 0, Len(h) - 1)), p, at,
                              completion_time, Append(res, result))

\* The while loop with the wait measured from time 0 instead of from the
\* Task's arrival.
RECURSIVE execute_wait_from_zero(_, _, _, _, _)
execute_wait_from_zero(h, p, at, clock, res) ==
    IF is_empty(h)
    THEN [heap |-> h, current_time |-> clock, results |-> res]
    ELSE LET task            == At(h, 0)
             start_time      == clock
             wait_time       == start_time
             completion_time == start_time + at[task].execution_time
             deadline_met    == IF at[task].deadline # << >>
                                THEN completion_time <= at[task].deadline[1]
                                ELSE TRUE
             result == SchedulingResult(task, start_time, completion_time,
                                        deadline_met, wait_time)
         IN  execute_wait_from_zero(pop_root(h, TRUE, p), p, at,
                                    completion_time, Append(res, result))

\* The while loop with a deadline met only by completing strictly before it.
RECURSIVE execute_strict_deadline(_, _, _, _, _)
execute_strict_deadline(h, p, at, clock, res) ==
    IF is_empty(h)
    THEN [heap |-> h, current_time |-> clock, results |-> res]
    ELSE LET task            == At(h, 0)
             start_time      == clock
             wait_time       == start_time - at[task].arrival_time
             completion_time == start_time + at[task].execution_time
             deadline_met    == IF at[task].deadline # << >>
                                THEN completion_time < at[task].deadline[1]
                                ELSE TRUE
             result == SchedulingResult(task, start_time, completion_time,
                                        deadline_met, wait_time)
         IN  execute_strict_deadline(pop_root(h, TRUE, p), p, at,
                                     completion_time, Append(res, result))

\* The while loop of a shortest-job-first scheduler: the Task taken next is
\* the queued one with the least execution_time.
RECURSIVE execute_shortest_first(_, _, _, _, _)
execute_shortest_first(h, p, at, clock, res) ==
    IF is_empty(h)
    THEN [heap |-> h, current_time |-> clock, results |-> res]
    ELSE LET shortest == {t \in Range(h) : \A u \in Range(h) :
                             at[t].execution_time <= at[u].execution_time}
             task            == SetMin(shortest)
             start_time      == clock
             wait_time       == start_time - at[task].arrival_time
             completion_time == start_time + at[task].execution_time
             deadline_met    == IF at[task].deadline # << >>
                                THEN completion_time <= at[task].deadline[1]
                                ELSE TRUE
             result == SchedulingResult(task, start_time, completion_time,
                                        deadline_met, wait_time)
         IN  execute_shortest_first(SelectSeq(h, LAMBDA x : x # task), p, at,
                                    completion_time, Append(res, result))

\* The while loop of a scheduler that idles until the Task it extracted has
\* arrived.
RECURSIVE execute_waits_for_arrival(_, _, _, _, _)
execute_waits_for_arrival(h, p, at, clock, res) ==
    IF is_empty(h)
    THEN [heap |-> h, current_time |-> clock, results |-> res]
    ELSE LET task            == At(h, 0)
             start_time      == Max(clock, at[task].arrival_time)
             wait_time       == start_time - at[task].arrival_time
             completion_time == start_time + at[task].execution_time
             deadline_met    == IF at[task].deadline # << >>
                                THEN completion_time <= at[task].deadline[1]
                                ELSE TRUE
             result == SchedulingResult(task, start_time, completion_time,
                                        deadline_met, wait_time)
         IN  execute_waits_for_arrival(pop_root(h, TRUE, p), p, at,
                                       completion_time, Append(res, result))

\* The while loop of schedule_tasks: extract_max until the queue is empty,
\* one result per extracted Task, the clock moved to its completion time.
RECURSIVE execute(_, _, _, _, _)
execute(h, p, at, clock, res) ==
    IF is_empty(h)
    THEN [heap |-> h, current_time |-> clock, results |-> res]
    ELSE LET task            == At(h, 0)
             start_time      == clock
             wait_time       == start_time - at[task].arrival_time
             completion_time == start_time + at[task].execution_time
             deadline_met    == IF at[task].deadline # << >>
                                THEN completion_time <= at[task].deadline[1]
                                ELSE TRUE
             result == SchedulingResult(task, start_time, completion_time,
                                        deadline_met, wait_time)
         IN  execute(pop_root(h, TRUE, p), p, at, completion_time,
                     Append(res, result))

\* A float quotient n / d, kept exact: the fraction in lowest terms.
RECURSIVE GCD(_, _)
GCD(a, b) == IF b = 0 THEN a ELSE GCD(b, a % b)

Abs(x) == IF x < 0 THEN -x ELSE x

Quotient(n, d) ==
    LET g == GCD(Abs(n), Abs(d))
    IN  [num |-> n \div g, den |-> d \div g]

\* The float 0.0.
Zero == [num |-> 0, den |-> 1]

RECURSIVE SumWait(_)
SumWait(res) ==
    IF res = << >> THEN 0 ELSE Head(res).wait_time + SumWait(Tail(res))

\* The completion time of the first result instead of the greatest one.
FirstCompletion(res) == res[1].completion_time

MaxCompletion(res) ==
    CHOOSE m \in {res[i].completion_time : i \in 1..Len(res)} :
        \A i \in 1..Len(res) : res[i].completion_time <= m

\* The number of results whose deadline_met flag is not set.
CountMissed(res) == Cardinality({i \in 1..Len(res) : ~res[i].deadline_met})

\* The number of results whose deadline_met flag is set.
CountMet(res) == Cardinality({i \in 1..Len(res) : res[i].deadline_met})

\* Tasks per unit of time, an unguarded quotient: undefined (a ZeroDivisionError)
\* when no time has passed.
throughput_unguarded(completed_tasks, total_execution_time) ==
    IF total_execution_time # 0
    THEN Quotient(completed_tasks, total_execution_time)
    ELSE [num |-> completed_tasks, den |-> 0]

\* Tasks per unit of time, 0.0 when no time has passed.
throughput(completed_tasks, total_execution_time) ==
    IF total_execution_time > 0
    THEN Quotient(completed_tasks, total_execution_time)
    ELSE Zero

\* The statistics of a non-empty result list.
summary(res) ==
    LET total_tasks     == Len(res)
        completed_tasks == Len(res)
        deadline_met    == CountMet(res)
        deadline_missed == total_tasks - deadline_met
        total_execution_time == MaxCompletion(res)
        average_wait_time ==
            IF total_tasks > 0 THEN Quotient(SumWait(res), total_tasks)
                               ELSE Zero
    IN  [total_tasks |-> total_tasks, completed_tasks |-> completed_tasks,
         deadline_met |-> deadline_met, deadline_missed |-> deadline_missed,
         total_execution_time |-> total_execution_time,
         average_wait_time |-> average_wait_time,
         throughput |-> throughput(completed_tasks, total_execution_time)]

\* get_statistics without its early return: the averages of an empty list
\* are undefined quotients.
statistics_unguarded(res) ==
    IF res = << >>
    THEN [total_tasks |-> 0, completed_tasks |-> 0, deadline_met |-> 0,
          deadline_missed |-> 0, total_execution_time |-> 0,
          average_wait_time |-> [num |-> 0, den |-> 0],
          throughput |-> [num |-> 0, den |-> 0]]
    ELSE summary(res)

\* What get_statistics(results) returns.
statistics(res) ==
    IF res = << >>
    THEN [total_tasks |-> 0, completed_tasks |-> 0, deadline_met |-> 0,
          deadline_missed |-> 0, total_execution_time |-> 0,
          average_wait_time |-> Zero, throughput |-> Zero]
    ELSE summary(res)

\* TaskScheduler.__init__, and the caller's list of at most max_tasks Tasks
\* with fields drawn from the given sets.
SchedInit(max_tasks, priorities, arrivals, deadlines, execs) ==
    /\ \E n \in 0..max_tasks :
          /\ tasks = [i \in 1..n |-> i]
          /\ prio \in [1..n -> priorities]
          /\ attrs \in [1..n -> TaskAttrs(arrivals, deadlines, execs)]
    /\ heap = << >>
    /\ is_max_heap = TRUE
    /\ current_time = 0
    /\ results = << >>
    /\ stats = << >>
    /\ n_calls = 0
    /\ pc = "idle"
    /\ pending = << >>
    /\ other = 0
    /\ arr = << >>
    /\ old_arr = << >>
    /\ key_fn = "identity"
    /\ inplace = TRUE
    /\ returned = << >>
    /\ returned_arr = FALSE
    /\ op = "init"
    /\ arg = 0
    /\ ret = "None"
    /\ ret_item = 0
    /\ index = -1
    /\ out = << >>

\* schedule_tasks without the reset of current_time: the clock of a second
\* call goes on from where the first call left it.
schedule_tasks_noreset ==
    /\ n_calls < MaxCalls
    /\ LET priority_queue == insert_all(<< >>, tasks, TRUE, prio)
           run == execute(priority_queue, prio, attrs, current_time, << >>)
       IN  /\ heap' = run.heap
           /\ current_time' = run.current_time
           /\ results' = run.results
    /\ is_max_heap' = TRUE
    /\ n_calls' = n_calls + 1
    /\ op' = "schedule_tasks"
    /\ arg' = 0
    /\ ret' = "results"
    /\ ret_item' = 0
    /\ index' = -1
    /\ out' = << >>
    /\ UNCHANGED <<prio, tasks, attrs, stats, pc, pending>>
    /\ UNCHANGED <<other, sort_vars>>

\* schedule_tasks draining the caller's list instead of a queue of its own.
schedule_tasks_consumes_input ==
    /\ n_calls < MaxCalls
    /\ LET priority_queue == insert_all(<< >>, tasks, TRUE, prio)
           run == execute(priority_queue, prio, attrs, 0, << >>)
       IN  /\ heap' = run.heap
           /\ current_time' = run.current_time
           /\ results' = run.results
    /\ tasks' = << >>
    /\ is_max_heap' = TRUE
    /\ n_calls' = n_calls + 1
    /\ op' = "schedule_tasks"
    /\ arg' = 0
    /\ ret' = "results"
    /\ ret_item' = 0
    /\ index' = -1
    /\ out' = << >>
    /\ UNCHANGED <<prio, attrs, stats, pc, pending>>
    /\ UNCHANGED <<other, sort_vars>>

\* TaskScheduler.schedule_tasks(tasks)
schedule_tasks ==
    /\ n_calls < MaxCalls
    /\ LET priority_queue == insert_all(<< >>, tasks, TRUE, prio)
           run == execute(priority_queue, prio, attrs, 0, << >>)
       IN  /\ heap' = run.heap
           /\ current_time' = run.current_time
           /\ results' = run.results
    /\ is_max_heap' = TRUE
    /\ n_calls' = n_calls + 1
    /\ op' = "schedule_tasks"
    /\ arg' = 0
    /\ ret' = "results"
    /\ ret_item' = 0
    /\ index' = -1
    /\ out' = << >>
    /\ UNCHANGED <<prio, tasks, attrs, stats, pc, pending>>
    /\ UNCHANGED <<other, sort_vars>>

\* The lists a caller can build from the Task objects of S, each at most once.
TaskLists(S) ==
    {ts \in UNION {[1..k -> S] : k \in 0..Cardinality(S)} :
        \A i, j \in DOMAIN ts : i # j => ts[i] # ts[j]}

\* schedule_tasks(new_tasks) with the result list kept across calls instead
\* of started empty.
schedule_tasks_keeps_results(new_tasks) ==
    /\ Range(new_tasks) \subseteq DOMAIN prio
    /\ n_calls < MaxCalls
    /\ LET priority_queue == insert_all(<< >>, new_tasks, TRUE, prio)
           run == execute(priority_queue, prio, attrs, 0, results)
       IN  /\ heap' = run.heap
           /\ current_time' = run.current_time
           /\ results' = run.results
    /\ tasks' = new_tasks
    /\ is_max_heap' = TRUE
    /\ n_calls' = n_calls + 1
    /\ op' = "schedule_tasks"
    /\ arg' = 0
    /\ ret' = "results"
    /\ ret_item' = 0
    /\ index' = -1
    /\ out' = << >>
    /\ UNCHANGED <<prio, attrs, stats, pc, pending>>
    /\ UNCHANGED <<other, sort_vars>>

\* TaskScheduler.schedule_tasks(new_tasks), for a list that may differ from
\* the one of the call before.
schedule_tasks_on(new_tasks) ==
    /\ Range(new_tasks) \subseteq DOMAIN prio
    /\ n_calls < MaxCalls
    /\ LET priority_queue == insert_all(<< >>, new_tasks, TRUE, prio)
           run == execute(priority_queue, prio, attrs, 0, << >>)
       IN  /\ heap' = run.heap
           /\ current_time' = run.current_time
           /\ results' = run.results
    /\ tasks' = new_tasks
    /\ is_max_heap' = TRUE
    /\ n_calls' = n_calls + 1
    /\ op' = "schedule_tasks"
    /\ arg' = 0
    /\ ret' = "results"
    /\ ret_item' = 0
    /\ index' = -1
    /\ out' = << >>
    /\ UNCHANGED <<prio, attrs, stats, pc, pending>>
    /\ UNCHANGED <<other, sort_vars>>

\* TaskScheduler.get_statistics(results), on the list schedule_tasks returned
\* (the empty list before any call).
get_statistics ==
    /\ stats' = <<statistics(results)>>
    /\ op' = "get_statistics"
    /\ arg' = 0
    /\ ret' = "stats"
    /\ ret_item' = 0
    /\ index' = -1
    /\ UNCHANGED <<heap, is_max_heap, prio, out, tasks, attrs, results,
                   current_time, n_calls, pc, pending>>
    /\ UNCHANGED <<other, sort_vars>>

NextSched ==
    \/ schedule_tasks
    \/ get_statistics

\* Runs over at most NumTasks Tasks of any priority and execution time,
\* arriving at 0 and without deadline (the dataclass default).
InitSched == SchedInit(NumTasks, SchedPrios, {0}, {<< >>}, 0..MaxExec)

SpecSched == InitSched /\ [][NextSched]_vars

\* One TaskScheduler run on one list after another, the lists built from at
\* most MaxTimed Task objects with the default execution time.
NextSchedLists ==
    \/ \E new_tasks \in TaskLists(1..MaxTimed) : schedule_tasks_on(new_tasks)
    \/ get_statistics

InitSchedLists == SchedInit(MaxTimed, Prios, {0}, {<< >>}, {1})

SpecSchedLists == InitSchedLists /\ [][NextSchedLists]_vars

---------------------------------------------------------------------------
(***************************************************************************)
(* schedule_tasks run one loop iteration at a time: pc is "insert" in the  *)
(* for loop, "sift_up" inside _heapify_up, "extract" at the while test,    *)
(* "sift_down" inside _heapify_down, "extracted" once extract_max has the  *)
(* root (held in ret_item) taken off and the list sifted, and "done" once  *)
(* the call returned.                                                      *)
(***************************************************************************)

\* schedule_tasks is called: the reset of the scheduler state.
schedule_tasks_begin ==
    /\ pc \in {"idle", "done"}
    /\ n_calls < MaxCalls
    /\ heap' = << >>
    /\ is_max_heap' = TRUE
    /\ current_time' = 0
    /\ results' = << >>
    /\ pending' = tasks
    /\ pc' = "insert"
    /\ n_calls' = n_calls + 1
    /\ op' = "schedule_tasks"
    /\ arg' = 0
    /\ ret' = "None"
    /\ ret_item' = 0
    /\ index' = -1
    /\ out' = << >>
    /\ UNCHANGED <<prio, tasks, attrs, stats>>
    /\ UNCHANGED <<other, sort_vars>>

\* for task in tasks: insert(task) appends the task and enters _heapify_up;
\* after the last task the while loop is reached.
schedule_tasks_insert ==
    /\ pc = "insert"
    /\ IF pending = << >>
       THEN /\ pc' = "extract"
            /\ UNCHANGED <<heap, index, pending>>
       ELSE /\ heap' = Append(heap, Head(pending))
            /\ index' = Len(heap') - 1
            /\ pending' = Tail(pending)
            /\ pc' = "sift_up"
    /\ UNCHANGED <<is_max_heap, prio, op, arg, ret, ret_item, out, tasks,
                   attrs, results, current_time, stats, n_calls>>
    /\ UNCHANGED <<other, sort_vars>>

\* One test of the while loop of _heapify_up that never leaves the loop
\* when the element is in place.
heapify_up_step_nobreak ==
    /\ pc = "sift_up"
    /\ LET parent == (index - 1) \div 2
       IN  IF index > 0
           THEN IF compare(is_max_heap, prio, At(heap, index), At(heap, parent))
                THEN /\ heap' = Swap(heap, index, parent)
                     /\ index' = parent
                     /\ pc' = pc
                ELSE UNCHANGED <<heap, index, pc>>
           ELSE /\ pc' = "insert"
                /\ index' = -1
                /\ heap' = heap
    /\ UNCHANGED <<is_max_heap, prio, op, arg, ret, ret_item, out, tasks,
                   attrs, results, current_time, stats, n_calls, pending>>
    /\ UNCHANGED <<other, sort_vars>>

\* One test of the while loop of _heapify_up: swap with the parent and go
\* on, or leave the loop.
heapify_up_step ==
    /\ pc = "sift_up"
    /\ LET parent == (index - 1) \div 2
       IN  IF index > 0 /\ compare(is_max_heap, prio, At(heap, index),
                                   At(heap, parent))
           THEN /\ heap' = Swap(heap, index, parent)
                /\ index' = parent
                /\ pc' = pc
           ELSE /\ pc' = "insert"
                /\ index' = -1
                /\ heap' = heap
    /\ UNCHANGED <<is_max_heap, prio, op, arg, ret, ret_item, out, tasks,
                   attrs, results, current_time, stats, n_calls, pending>>
    /\ UNCHANGED <<other, sort_vars>>

\* while not is_empty(): extract_max takes the root off, or the call returns.
schedule_tasks_extract ==
    /\ pc = "extract"
    /\ IF is_empty(heap)
       THEN /\ pc' = "done"
            /\ ret' = "results"
            /\ UNCHANGED <<heap, ret_item, index>>
       ELSE /\ ret_item' = At(heap, 0)
            /\ ret' = ret
            /\ IF Len(heap) = 1
               THEN /\ heap' = Pop(heap)
                    /\ index' = -1
                    /\ pc' = "extracted"
               ELSE /\ heap' = [Pop(heap) EXCEPT ![1] = At(heap, Len(heap) - 1)]
                    /\ index' = 0
                    /\ pc' = "sift_down"
    /\ UNCHANGED <<is_max_heap, prio, op, arg, out, tasks, attrs, results,
                   current_time, stats, n_calls, pending>>
    /\ UNCHANGED <<other, sort_vars>>

\* One pass of the while loop of _heapify_down in which the right child is
\* taken unless it is strictly worse than the best so far.
heapify_down_step_prefers_right ==
    /\ pc = "sift_down"
    /\ LET n     == Len(heap)
           left  == 2 * index + 1
           right == 2 * index + 2
           c1    == IF left < n /\ compare(is_max_heap, prio, At(heap, left),
                                           At(heap, index))
                    THEN left ELSE index
           largest_or_smallest ==
                    IF right < n /\ ~compare(is_max_heap, prio, At(heap, c1),
                                             At(heap, right))
                    THEN right ELSE c1
       IN  IF largest_or_smallest = index
           THEN /\ pc' = "extracted"
                /\ index' = -1
                /\ heap' = heap
           ELSE /\ heap' = Swap(heap, index, largest_or_smallest)
                /\ index' = largest_or_smallest
                /\ pc' = pc
    /\ UNCHANGED <<is_max_heap, prio, op, arg, ret, ret_item, out, tasks,
                   attrs, results, current_time, stats, n_calls, pending>>
    /\ UNCHANGED <<other, sort_vars>>

\* One pass of the while loop of _heapify_down: swap with the child that
\* should be above, or leave the loop.
heapify_down_step ==
    /\ pc = "sift_down"
    /\ LET n     == Len(heap)
           left  == 2 * index + 1
           right == 2 * index + 2
           c1    == IF left < n /\ compare(is_max_heap, prio, At(heap, left),
                                           At(heap, index))
                    THEN left ELSE index
           largest_or_smallest ==
                    IF right < n /\ compare(is_max_heap, prio, At(heap, right),
                                            At(heap, c1))
                    THEN right ELSE c1
       IN  IF largest_or_smallest = index
           THEN /\ pc' = "extracted"
                /\ index' = -1
                /\ heap' = heap
           ELSE /\ heap' = Swap(heap, index, largest_or_smallest)
                /\ index' = largest_or_smallest
                /\ pc' = pc
    /\ UNCHANGED <<is_max_heap, prio, op, arg, ret, ret_item, out, tasks,
                   attrs, results, current_time, stats, n_calls, pending>>
    /\ UNCHANGED <<other, sort_vars>>

\* The body of the while loop after extract_max: the result of the extracted
\* task is appended and the clock moved.
schedule_tasks_record ==
    /\ pc = "extracted"
    /\ LET task            == ret_item
           start_time      == current_time
           wait_time       == start_time - attrs[task].arrival_time
           completion_time == start_time + attrs[task].execution_time
           deadline_met    == IF attrs[task].deadline # << >>
                              THEN completion_time <= attrs[task].deadline[1]
                              ELSE TRUE
       IN  /\ results' = Append(results,
                                SchedulingResult(task, start_time,
                                                 completion_time, deadline_met,
                                                 wait_time))
           /\ current_time' = completion_time
    /\ pc' = "extract"
    /\ UNCHANGED <<heap, is_max_heap, prio, op, arg, ret, ret_item, index,
                   out, tasks, attrs, stats, n_calls, pending>>
    /\ UNCHANGED <<other, sort_vars>>

\* extract_max is called on the queue: IndexError on the empty list, the only
\* element popped, or the last element put in the root slot and
\* _heapify_down(0) entered.
extract_max_begin ==
    /\ pc = "idle"
    /\ op' = "extract_max"
    /\ arg' = 0
    /\ IF is_empty(heap)
       THEN /\ ret' = "IndexError"
            /\ ret_item' = 0
            /\ index' = -1
            /\ UNCHANGED <<heap, pc>>
       ELSE /\ ret' = "None"
            /\ ret_item' = At(heap, 0)
            /\ IF Len(heap) = 1
               THEN /\ heap' = Pop(heap)
                    /\ index' = -1
                    /\ pc' = "extracted"
               ELSE /\ heap' = [Pop(heap) EXCEPT ![1] = At(heap, Len(heap) - 1)]
                    /\ index' = 0
                    /\ pc' = "sift_down"
    /\ UNCHANGED <<is_max_heap, prio, out, tasks, attrs, results,
                   current_time, stats, n_calls, pending, other>>
    /\ UNCHANGED sort_vars

\* extract_max returns the root it took off.
extract_max_end ==
    /\ pc = "extracted"
    /\ pc' = "idle"
    /\ ret' = "item"
    /\ out' = Append(out, prio[ret_item])
    /\ UNCHANGED <<heap, is_max_heap, prio, op, arg, ret_item, index, tasks,
                   attrs, results, current_time, stats, n_calls, pending,
                   other>>
    /\ UNCHANGED sort_vars

\* The steps of a running call.
RunSteps ==
    \/ schedule_tasks_insert
    \/ heapify_up_step
    \/ schedule_tasks_extract
    \/ heapify_down_step
    \/ schedule_tasks_record

NextSteps ==
    \/ schedule_tasks_begin
    \/ schedule_tasks_insert
    \/ heapify_up_step
    \/ schedule_tasks_extract
    \/ heapify_down_step
    \/ schedule_tasks_record

\* Runs over at most NumTasks Tasks of any priority with the default
\* execution time; a call that was started keeps running.
InitSteps == SchedInit(NumTasks, SchedPrios, {0}, {<< >>}, {1})

SpecSteps == InitSteps /\ [][NextSteps]_vars /\ WF_vars(RunSteps)

\* Runs over at most MaxTimed Tasks that also differ in arrival time.
InitSchedArrival ==
    SchedInit(MaxTimed, Prios, 0..MaxArrival, {<< >>}, 0..MaxExec)

SpecSchedArrival == InitSchedArrival /\ [][NextSched]_vars

\* Runs over at most MaxTimed Tasks that also differ in deadline.
InitSchedDeadline == SchedInit(MaxTimed, Prios, {0}, Deadlines, 0..MaxExec)

SpecSchedDeadline == InitSchedDeadline /\ [][NextSched]_vars

---------------------------------------------------------------------------
\* Runs over at most MaxTimed Tasks that differ in arrival time, deadline and
\* execution time at once, each field at its least or its greatest value.
InitSchedFields ==
    SchedInit(MaxTimed, Prios, {0, MaxArrival},
              {<< >>, <<0>>, <<MaxDeadline>>}, {0, MaxExec})

SpecSchedFields == InitSchedFields /\ [][NextSched]_vars

---------------------------------------------------------------------------

\* Bound of the queues drained one sift pass at a time.
MaxHeap == 4   \* items inserted before the extractions

\* A queue of either mode after the insertion of n <= MaxHeap Tasks of any
\* priorities.
InitSift ==
    /\ is_max_heap \in BOOLEAN
    /\ \E n \in 0..MaxHeap :
          /\ prio \in [1..n -> Prios]
          /\ heap = insert_all(<< >>, [i \in 1..n |-> i], is_max_heap, prio)
    /\ op = "insert"
    /\ arg = 0
    /\ ret = "None"
    /\ ret_item = 0
    /\ index = -1
    /\ out = << >>
    /\ tasks = << >>
    /\ attrs = << >>
    /\ results = << >>
    /\ current_time = 0
    /\ stats = << >>
    /\ n_calls = 0
    /\ pc = "idle"
    /\ pending = << >>
    /\ other = 0
    /\ arr = << >>
    /\ old_arr = << >>
    /\ key_fn = "identity"
    /\ inplace = TRUE
    /\ returned = << >>
    /\ returned_arr = FALSE

\* extract_max calls, each run one pass of _heapify_down at a time.
NextSift ==
    \/ extract_max_begin
    \/ heapify_down_step
    \/ extract_max_end

SpecSift == InitSift /\ [][NextSift]_vars

---------------------------------------------------------------------------
(***************************************************************************)
(* The methods of Task called on two Task objects (tasks 1 and 2): op is   *)
(* the method, arg the Task it is called on, other the Task it is compared *)
(* with, current_time the time it is given, ret what it returns.           *)
(***************************************************************************)

\* The times a Task method is asked about: up to one past the last deadline.
Times == 0..(MaxDeadline + 1)

\* How a bool returned by a method is recorded in ret.
Bool(b) == IF b THEN "True" ELSE "False"

\* task.is_overdue(now)
call_is_overdue(task, now) ==
    /\ op' = "is_overdue"
    /\ arg' = task
    /\ other' = 0
    /\ UNCHANGED sort_vars
    /\ current_time' = now
    /\ ret' = Bool(is_overdue(attrs[task].deadline, now))
    /\ ret_item' = 0
    /\ UNCHANGED <<heap, is_max_heap, prio, index, out, tasks, attrs, results,
                   stats, n_calls, pc, pending>>

\* task.time_until_deadline(now)
call_time_until_deadline(task, now) ==
    /\ op' = "time_until_deadline"
    /\ arg' = task
    /\ other' = 0
    /\ UNCHANGED sort_vars
    /\ current_time' = now
    /\ LET remaining == time_until_deadline(attrs[task].deadline, now)
       IN  IF remaining = << >>
           THEN ret' = "None" /\ ret_item' = 0
           ELSE ret' = "time" /\ ret_item' = remaining[1]
    /\ UNCHANGED <<heap, is_max_heap, prio, index, out, tasks, attrs, results,
                   stats, n_calls, pc, pending>>

\* a < b
call_lt(a, b) ==
    /\ op' = "__lt__"
    /\ arg' = a
    /\ other' = b
    /\ UNCHANGED sort_vars
    /\ ret' = Bool(task_lt(prio, a, b))
    /\ ret_item' = 0
    /\ UNCHANGED <<heap, is_max_heap, prio, index, out, tasks, attrs, results,
                   current_time, stats, n_calls, pc, pending>>

\* a > b
call_gt(a, b) ==
    /\ op' = "__gt__"
    /\ arg' = a
    /\ other' = b
    /\ UNCHANGED sort_vars
    /\ ret' = Bool(task_gt(prio, a, b))
    /\ ret_item' = 0
    /\ UNCHANGED <<heap, is_max_heap, prio, index, out, tasks, attrs, results,
                   current_time, stats, n_calls, pc, pending>>

\* a == b
call_eq(a, b) ==
    /\ op' = "__eq__"
    /\ arg' = a
    /\ other' = b
    /\ UNCHANGED sort_vars
    /\ ret' = Bool(task_eq(prio, a, b))
    /\ ret_item' = 0
    /\ UNCHANGED <<heap, is_max_heap, prio, index, out, tasks, attrs, results,
                   current_time, stats, n_calls, pc, pending>>

\* a <= b
call_le(a, b) ==
    /\ op' = "__le__"
    /\ arg' = a
    /\ other' = b
    /\ UNCHANGED sort_vars
    /\ ret' = Bool(task_le(prio, a, b))
    /\ ret_item' = 0
    /\ UNCHANGED <<heap, is_max_heap, prio, index, out, tasks, attrs, results,
                   current_time, stats, n_calls, pc, pending>>

\* a >= b
call_ge(a, b) ==
    /\ op' = "__ge__"
    /\ arg' = a
    /\ other' = b
    /\ UNCHANGED sort_vars
    /\ ret' = Bool(task_ge(prio, a, b))
    /\ ret_item' = 0
    /\ UNCHANGED <<heap, is_max_heap, prio, index, out, tasks, attrs, results,
                   current_time, stats, n_calls, pc, pending>>

\* Two Task objects with any priority, arrival time and deadline.
InitTask ==
    /\ tasks = <<1, 2>>
    /\ prio \in [{1, 2} -> Prios]
    /\ attrs \in [{1, 2} -> TaskAttrs(0..MaxArrival, Deadlines, {1})]
    /\ heap = << >>
    /\ is_max_heap = TRUE
    /\ current_time = 0
    /\ results = << >>
    /\ stats = << >>
    /\ n_calls = 0
    /\ pc = "idle"
    /\ pending = << >>
    /\ other = 0
    /\ arr = << >>
    /\ old_arr = << >>
    /\ key_fn = "identity"
    /\ inplace = TRUE
    /\ returned = << >>
    /\ returned_arr = FALSE
    /\ op = "init"
    /\ arg = 0
    /\ ret = "None"
    /\ ret_item = 0
    /\ index = -1
    /\ out = << >>

NextTask ==
    \/ \E task \in {1, 2}, now \in Times : call_is_overdue(task, now)
    \/ \E task \in {1, 2}, now \in Times : call_time_until_deadline(task, now)
    \/ \E a, b \in {1, 2} : call_lt(a, b)
    \/ \E a, b \in {1, 2} : call_gt(a, b)
    \/ \E a, b \in {1, 2} : call_eq(a, b)
    \/ \E a, b \in {1, 2} : call_le(a, b)
    \/ \E a, b \in {1, 2} : call_ge(a, b)

SpecTask == InitTask /\ [][NextTask]_vars

---------------------------------------------------------------------------
(***************************************************************************)
(* The functions of src/src/heapsort.py on Python lists of integers.  The  *)
(* caller's list object is arr; a function that works in place changes it, *)
(* and heapsort hands a list back that is that object or a new one.        *)
(***************************************************************************)
MaxLen == 4   \* length of the lists handed to the functions
MaxVal == 1   \* the elements are -MaxVal..MaxVal

Vals == (-MaxVal)..MaxVal
Lists(S, n) == UNION {[1..k -> S] : k \in 0..n}

\* The key argument: the default `lambda x: x`, or the builtin abs.
KeyFns == {"identity", "abs"}
apply_key(k, x) == IF k = "abs" THEN Abs(x) ELSE x

\* A _heapify that never looks at the right child.
RECURSIVE heapify_ignores_right(_, _, _, _)
heapify_ignores_right(a, n, i, k) ==
    LET left    == 2 * i + 1
        largest == IF left < n /\ apply_key(k, At(a, left)) > apply_key(k, At(a, i))
                   THEN left ELSE i
    IN  IF largest # i
        THEN heapify_ignores_right(Swap(a, i, largest), n, largest, k)
        ELSE a

\* _heapify(arr, n, i, key): sift arr[i] down within arr[0..n-1].
RECURSIVE heapify(_, _, _, _)
heapify(a, n, i, k) ==
    LET left    == 2 * i + 1
        right   == 2 * i + 2
        larger  == IF left < n /\ apply_key(k, At(a, left)) > apply_key(k, At(a, i))
                   THEN left ELSE i
        largest == IF right < n
                      /\ apply_key(k, At(a, right)) > apply_key(k, At(a, larger))
                   THEN right ELSE larger
    IN  IF largest # i
        THEN heapify(Swap(a, i, largest), n, largest, k)
        ELSE a

\* The loop of _build_max_heap from index i down to 0.
RECURSIVE build_max_heap_loop(_, _, _)
build_max_heap_loop(a, i, k) ==
    IF i < 0
    THEN a
    ELSE build_max_heap_loop(heapify(a, Len(a), i, k), i - 1, k)

\* _build_max_heap(arr, key)
build_max_heap(a, k) == build_max_heap_loop(a, Len(a) \div 2 - 1, k)

\* An extraction loop that stops one pass early (range(n - 1, 1, -1)).
RECURSIVE heapsort_loop_stops_early(_, _, _)
heapsort_loop_stops_early(a, i, k) ==
    IF i <= 1
    THEN a
    ELSE heapsort_loop_stops_early(heapify(Swap(a, 0, i), i, 0, k), i - 1, k)

\* The extraction loop of heapsort from index i down to 1: the root goes to
\* slot i and the heap shrinks to arr[0..i-1].
RECURSIVE heapsort_loop(_, _, _)
heapsort_loop(a, i, k) ==
    IF i <= 0
    THEN a
    ELSE heapsort_loop(heapify(Swap(a, 0, i), i, 0, k), i - 1, k)

\* heapsort(arr, key, inplace): what the caller's list holds afterwards, the
\* list returned, and whether the two are one object.
heapsort(a, k, inpl) ==
    IF a = << >>
    THEN [arr |-> a, returned |-> a, returned_arr |-> TRUE]
    ELSE LET sorted == heapsort_loop(build_max_heap(a, k), Len(a) - 1, k)
         IN  IF inpl
             THEN [arr |-> sorted, returned |-> sorted, returned_arr |-> TRUE]
             ELSE [arr |-> a, returned |-> sorted, returned_arr |-> FALSE]

\* A heap_extract_max that moves the last element to the root and leaves it
\* there.
heap_extract_max_unsifted(a, k) ==
    IF a = << >>
    THEN [arr |-> a, ret |-> "IndexError", max_val |-> 0]
    ELSE IF Len(a) = 1
    THEN [arr |-> << >>, ret |-> "max_val", max_val |-> At(a, 0)]
    ELSE [arr |-> [Pop(a) EXCEPT ![1] = At(a, Len(a) - 1)],
          ret |-> "max_val", max_val |-> At(a, 0)]

\* heap_extract_max(arr, key)
heap_extract_max(a, k) ==
    IF a = << >>
    THEN [arr |-> a, ret |-> "IndexError", max_val |-> 0]
    ELSE IF Len(a) = 1
    THEN [arr |-> << >>, ret |-> "max_val", max_val |-> At(a, 0)]
    ELSE LET moved == [Pop(a) EXCEPT ![1] = At(a, Len(a) - 1)]
         IN  [arr |-> heapify(moved, Len(moved), 0, k),
              ret |-> "max_val", max_val |-> At(a, 0)]

\* A bubble-up that stops after one level.
bubble_up_one_level(a, i, k) ==
    IF i > 0
    THEN LET parent == (i - 1) \div 2
         IN  IF apply_key(k, At(a, parent)) >= apply_key(k, At(a, i))
             THEN a
             ELSE Swap(a, parent, i)
    ELSE a

\* The while loop of heap_insert from index i.
RECURSIVE bubble_up(_, _, _)
bubble_up(a, i, k) ==
    IF i > 0
    THEN LET parent == (i - 1) \div 2
         IN  IF apply_key(k, At(a, parent)) >= apply_key(k, At(a, i))
             THEN a
             ELSE bubble_up(Swap(a, parent, i), parent, k)
    ELSE a

\* A heap_insert that appends the item and leaves it where it is.
heap_insert_appends(a, item, k) == Append(a, item)

\* heap_insert(arr, item, key)
heap_insert(a, item, k) == bubble_up(Append(a, item), Len(a), k)

\* result = heapsort(arr, key, inplace)
call_heapsort(inpl) ==
    /\ LET r == heapsort(arr, key_fn, inpl)
       IN  /\ arr' = r.arr
           /\ returned' = r.returned
           /\ returned_arr' = r.returned_arr
    /\ old_arr' = arr
    /\ inplace' = inpl
    /\ op' = "heapsort"
    /\ arg' = 0
    /\ ret' = "list"
    /\ ret_item' = 0
    /\ UNCHANGED <<key_fn, heap, is_max_heap, prio, index, out, tasks, attrs,
                   results, current_time, stats, n_calls, pc, pending, other>>

\* _build_max_heap(arr, key)
call_build_max_heap ==
    /\ arr' = build_max_heap(arr, key_fn)
    /\ old_arr' = arr
    /\ op' = "_build_max_heap"
    /\ arg' = 0
    /\ ret' = "None"
    /\ ret_item' = 0
    /\ inplace' = TRUE
    /\ returned' = << >>
    /\ returned_arr' = FALSE
    /\ UNCHANGED <<key_fn, heap, is_max_heap, prio, index, out, tasks, attrs,
                   results, current_time, stats, n_calls, pc, pending, other>>

\* max_val = heap_extract_max(arr, key)
call_heap_extract_max ==
    /\ LET r == heap_extract_max(arr, key_fn)
       IN  /\ arr' = r.arr
           /\ ret' = r.ret
           /\ ret_item' = r.max_val
    /\ old_arr' = arr
    /\ op' = "heap_extract_max"
    /\ arg' = 0
    /\ inplace' = TRUE
    /\ returned' = << >>
    /\ returned_arr' = FALSE
    /\ UNCHANGED <<key_fn, heap, is_max_heap, prio, index, out, tasks, attrs,
                   results, current_time, stats, n_calls, pc, pending, other>>

\* heap_insert(arr, item, key)
call_heap_insert(item) ==
    /\ arr' = heap_insert(arr, item, key_fn)
    /\ old_arr' = arr
    /\ op' = "heap_insert"
    /\ arg' = item
    /\ ret' = "None"
    /\ ret_item' = 0
    /\ inplace' = TRUE
    /\ returned' = << >>
    /\ returned_arr' = FALSE
    /\ UNCHANGED <<key_fn, heap, is_max_heap, prio, index, out, tasks, attrs,
                   results, current_time, stats, n_calls, pc, pending, other>>

\* A caller's list from the given set, with the given key functions, and no
\* call made yet.
SortInit(lists, keys) ==
    /\ arr \in lists
    /\ old_arr = arr
    /\ key_fn \in keys
    /\ inplace = TRUE
    /\ returned = << >>
    /\ returned_arr = FALSE
    /\ op = "init"
    /\ arg = 0
    /\ ret = "None"
    /\ ret_item = 0
    /\ heap = << >>
    /\ is_max_heap = TRUE
    /\ prio = << >>
    /\ index = -1
    /\ out = << >>
    /\ tasks = << >>
    /\ attrs = << >>
    /\ results = << >>
    /\ current_time = 0
    /\ stats = << >>
    /\ n_calls = 0
    /\ pc = "idle"
    /\ pending = << >>
    /\ other = 0

\* Any list of at most MaxLen elements, and calls of the four functions in
\* any order; the list is not grown beyond MaxLen.
InitSort == SortInit(Lists(Vals, MaxLen), KeyFns)

NextSort ==
    \/ \E inpl \in BOOLEAN : call_heapsort(inpl)
    \/ call_build_max_heap
    \/ call_heap_extract_max
    \/ \E item \in Vals : Len(arr) < MaxLen /\ call_heap_insert(item)

SpecSort == InitSort /\ [][NextSort]_vars

\* The lists and the item of the docstring examples of heapsort.py.
DocHeap == <<10, 5, 3, 4, 1>>

DocItem == 15
DocLists == {<<10, 5, 3, 4, 1>>, <<4, 10, 3, 5, 1>>, <<12, 11, 13, 5, 6, 7>>,
             <<3, 1, 4, 1, 5, 9, 2, 6>>}

InitDoc == SortInit(DocLists, {"identity"})

NextDoc ==
    \/ \E inpl \in BOOLEAN : call_heapsort(inpl)
    \/ call_build_max_heap
    \/ call_heap_extract_max
    \/ arr \in DocLists /\ call_heap_insert(DocItem)

SpecDoc == InitDoc /\ [][NextDoc]_vars

---------------------------------------------------------------------------
\* C1: after any sequence of insert, extract_max/extract_min, increase_key
\* and decrease_key calls, every non-root slot's parent is not below it in
\* the configured ordering (max-heap: parent >= child, min-heap: parent <=
\* child).
C1_HeapInvariant == HeapOK(heap, is_max_heap, prio)

\* C2: the priorities returned by extractions made in a row, with inserts
\* and extractions (no key update) before them, are non-increasing in a
\* max-heap and non-decreasing in a min-heap; in particular inserting N
\* priorities into an empty queue and extracting all N yields them sorted.
C2_SortedExtraction ==
    \A k \in 1..(Len(out) - 1) :
        IF is_max_heap THEN out[k] >= out[k + 1] ELSE out[k] <= out[k + 1]

\* C2 witness: all NumTasks items were inserted and extracted again, and the
\* priorities that came out hold a duplicate and two different values.
C2_Witness ==
    /\ is_empty(heap)
    /\ Len(out) = NumTasks
    /\ \E k \in 1..(NumTasks - 1) : out[k] = out[k + 1]
    /\ \E k \in 1..(NumTasks - 1) : out[k] # out[k + 1]

\* C3: a key update of an item that is in the heap, made on a valid heap,
\* leaves a valid heap whether the new priority is higher or lower than the
\* old one and whichever of increase_key and decrease_key was called.  Stated
\* for the updates whose lookup found the slot of the passed item, so that
\* it is the direction of the change alone that decides it.
C3_UpdateRestoresInvariant ==
    [][(/\ op' \in KeyOps
        /\ ret' = "True"
        /\ arg' \in Range(heap)
        /\ At(heap, index') = arg'
        /\ HeapOK(heap, is_max_heap, prio))
       => HeapOK(heap', is_max_heap', prio')]_vars

\* C4: after a key update of an item X that is in a valid heap, draining the
\* heap yields the same sequence of priorities as draining a heap built from
\* scratch out of the same items with X at its new priority.
C4_UpdateThenDrainAsRebuilt ==
    [][(/\ op' \in KeyOps
        /\ ret' = "True"
        /\ arg' \in Range(heap)
        /\ HeapOK(heap, is_max_heap, prio))
       => extract_all(heap', is_max_heap', prio')
          = extract_all(insert_all(<< >>, heap', is_max_heap', prio'),
                        is_max_heap', prio')]_vars

\* C5: a key update of an item that is in the heap works on the slot that
\* holds that very item, also when other items have the same priority.
C5_UpdateByIdentity ==
    [][(op' \in KeyOps /\ ret' = "True" /\ arg' \in Range(heap))
       => At(heap, index') = arg']_vars

\* C6: a key update returns True exactly when the passed item is in the
\* heap, and for an item that is not in the heap it changes neither the heap
\* nor any priority (the passed item's included).
C6_NotFoundIsFalse ==
    [][op' \in KeyOps
       => /\ (ret' = "True") <=> (arg' \in Range(heap))
          /\ arg' \notin Range(heap) => heap' = heap /\ prio' = prio]_vars

\* C7: insert raises size() by exactly 1, a successful extraction lowers it
\* by exactly 1 (down to the empty heap from a single element), and a key
\* update leaves it as it was whether it finds the item or not.
C7_SizeConservation ==
    [][/\ op' = "insert" => size(heap') = size(heap) + 1
       /\ (op' \in ExtractOps /\ ret' = "item") => size(heap') = size(heap) - 1
       /\ op' \in KeyOps => size(heap') = size(heap)]_vars

\* C7 witness: an extraction returned the only element and left the heap
\* empty.
C7_Witness == op \in ExtractOps /\ ret = "item" /\ is_empty(heap) /\ Len(out) = 1

\* C8: with inserts and extractions only, the item that peek or an
\* extraction returns has a priority >= that of every item of the heap in a
\* max-heap, and <= in a min-heap.
C8_RootIsExtremum ==
    (op \in ExtractOps \cup {"peek"} /\ ret = "item")
    => \A t \in Range(heap) :
          IF is_max_heap THEN prio[ret_item] >= prio[t]
                         ELSE prio[ret_item] <= prio[t]

\* C8 witness: extract_max on a full max-heap returned an item above one of
\* those left, after an earlier extraction and insertion.
C8_Witness ==
    /\ op = "extract_max"
    /\ is_max_heap
    /\ ret = "item"
    /\ Len(heap) = NumTasks - 1
    /\ \E t \in Range(heap) : prio[t] < prio[ret_item]

\* C9: peek changes neither the heap nor any priority nor size(), and what it
\* returns is the root of that unchanged heap, so that any number of peeks in
\* a row return the same item.
C9_PeekIdempotent ==
    [][op' = "peek"
       => /\ heap' = heap
          /\ prio' = prio
          /\ size(heap') = size(heap)
          /\ ~is_empty(heap) => (ret' = "item" /\ ret_item' = At(heap', 0))]_vars

\* C9 witness: peek returned the root of a heap of several items.
C9_Witness ==
    op = "peek" /\ ret = "item" /\ Len(heap) > 1 /\ ret_item = At(heap, 0)

\* C10: extract_max and extract_min on an empty heap raise IndexError and
\* leave the heap empty, and they raise on no other heap.
C10_ExtractEmptyRaises ==
    [][op' \in ExtractOps
       => /\ is_empty(heap) => (ret' = "IndexError" /\ is_empty(heap'))
          /\ ret' = "IndexError" => is_empty(heap)]_vars

\* C10 witness: an extraction raised on a heap that earlier extractions had
\* emptied.
C10_Witness ==
    op \in ExtractOps /\ ret = "IndexError" /\ is_empty(heap) /\ Len(out) > 0

\* C11: peek on an empty heap returns None (it does not raise) and leaves
\* the heap empty.
C11_PeekEmptyIsNone ==
    [][(op' = "peek" /\ is_empty(heap))
       => (ret' = "None" /\ ret_item' = 0 /\ is_empty(heap'))]_vars

\* C11 witness: peek answered None on a heap that extractions had emptied.
C11_Witness ==
    op = "peek" /\ ret = "None" /\ is_empty(heap) /\ Len(out) > 0

---------------------------------------------------------------------------
\* C12: schedule_tasks processes tasks highest priority first: the priorities
\* of the tasks named by consecutive results never increase, whatever the
\* order of the input list.
C12_HighestPriorityFirst ==
    \A i \in 1..(Len(results) - 1) :
        prio[results[i].task_id] >= prio[results[i + 1].task_id]

\* Three tasks handed over as lowest, highest, middle come out as highest,
\* middle, lowest.
C12_Witness ==
    /\ op = "schedule_tasks"
    /\ Len(tasks) = 3
    /\ prio[1] < prio[3]
    /\ prio[3] < prio[2]
    /\ [i \in 1..3 |-> results[i].task_id] = <<2, 3, 1>>

---------------------------------------------------------------------------
\* C13: in the results of schedule_tasks the first start_time is 0, every
\* later start_time is the previous result's completion_time, and every
\* result has completion_time = start_time + execution_time and
\* wait_time = start_time - arrival_time of its task.
C13_Timing ==
    /\ Len(results) > 0 => results[1].start_time = 0
    /\ \A i \in 2..Len(results) :
           results[i].start_time = results[i - 1].completion_time
    /\ \A i \in 1..Len(results) :
           LET task == results[i].task_id
           IN  /\ results[i].completion_time =
                      results[i].start_time + attrs[task].execution_time
               /\ results[i].wait_time =
                      results[i].start_time - attrs[task].arrival_time

\* Two tasks arriving at different times: the second starts when the first
\* completes, after the clock has moved, and its wait counts from its arrival.
C13_Witness ==
    /\ op = "schedule_tasks"
    /\ Len(results) = 2
    /\ attrs[results[1].task_id].arrival_time # attrs[results[2].task_id].arrival_time
    /\ results[2].start_time > 0
    /\ results[2].wait_time # results[2].start_time

---------------------------------------------------------------------------
\* C14: every result's deadline_met is True if its task has no deadline, and
\* otherwise is True exactly when completion_time <= deadline.
C14_DeadlineMet ==
    \A i \in 1..Len(results) :
        LET deadline == attrs[results[i].task_id].deadline
        IN  results[i].deadline_met =
                (\/ deadline = << >>
                 \/ results[i].completion_time <= deadline[1])

\* The first task completes exactly at its deadline and meets it; the second
\* completes after its deadline and misses it.
C14_Witness ==
    /\ op = "schedule_tasks"
    /\ Len(results) = 2
    /\ attrs[results[1].task_id].deadline = <<results[1].completion_time>>
    /\ results[1].completion_time > 0
    /\ results[1].deadline_met
    /\ attrs[results[2].task_id].deadline # << >>
    /\ results[2].completion_time > attrs[results[2].task_id].deadline[1]
    /\ ~results[2].deadline_met

---------------------------------------------------------------------------
\* C15: schedule_tasks returns exactly one result per input task: as many
\* results as tasks, and every input task named by exactly one result, also
\* when several tasks share a priority.
C15_OneResultPerTask ==
    n_calls > 0 =>
        /\ Len(results) = Len(tasks)
        /\ \A t \in Range(tasks) :
               Cardinality({i \in 1..Len(results) : results[i].task_id = t}) = 1

\* Three tasks, two of them of one priority, and a third of another.
C15_Witness ==
    /\ op = "schedule_tasks"
    /\ Len(tasks) = 3
    /\ prio[1] = prio[3]
    /\ prio[1] # prio[2]
    /\ Len(results) = 3

---------------------------------------------------------------------------
\* C16: schedule_tasks on an empty list returns an empty result list, and
\* get_statistics on an empty result list returns all counts 0 and
\* total_execution_time, average_wait_time and throughput 0.
C16_EmptyInput ==
    /\ (n_calls > 0 /\ tasks = << >>) => results = << >>
    /\ (op = "get_statistics" /\ results = << >>) =>
           stats = <<[total_tasks |-> 0, completed_tasks |-> 0,
                      deadline_met |-> 0, deadline_missed |-> 0,
                      total_execution_time |-> 0,
                      average_wait_time |-> Zero, throughput |-> Zero]>>

\* The statistics of the results of a schedule_tasks call on the empty list.
C16_Witness ==
    /\ tasks = << >>
    /\ n_calls > 0
    /\ op = "get_statistics"
    /\ stats # << >>

---------------------------------------------------------------------------
\* The sum of the execution times of the tasks of ts.
RECURSIVE SumExec(_, _)
SumExec(ts, at) ==
    IF ts = << >> THEN 0
    ELSE at[Head(ts)].execution_time + SumExec(Tail(ts), at)

\* C17: for the results of schedule_tasks on tasks with execution_time >= 0,
\* get_statistics reports total_execution_time equal to the last result's
\* completion_time, to the scheduler's final clock and to the sum of the
\* tasks' execution times.
C17_TotalExecutionTime ==
    (op = "get_statistics" /\ n_calls > 0) =>
        /\ stats[1].total_execution_time = current_time
        /\ stats[1].total_execution_time = SumExec(tasks, attrs)
        /\ results # << >> =>
               stats[1].total_execution_time =
                   results[Len(results)].completion_time

\* Three tasks, the middle one taking no time, the clock ending at 2.
C17_Witness ==
    /\ op = "get_statistics"
    /\ n_calls > 0
    /\ Len(results) = 3
    /\ attrs[results[2].task_id].execution_time = 0
    /\ stats[1].total_execution_time = 2

---------------------------------------------------------------------------
\* The number of deadline_met flags set in res.
RECURSIVE FlagsSet(_)
FlagsSet(res) ==
    IF res = << >> THEN 0
    ELSE (IF Head(res).deadline_met THEN 1 ELSE 0) + FlagsSet(Tail(res))

\* C18: get_statistics returns total_tasks = completed_tasks = len(results),
\* deadline_met = the number of results whose deadline_met flag is true, and
\* deadline_met + deadline_missed = total_tasks.
C18_Counts ==
    op = "get_statistics" =>
        /\ stats[1].total_tasks = Len(results)
        /\ stats[1].completed_tasks = Len(results)
        /\ stats[1].deadline_met = FlagsSet(results)
        /\ stats[1].deadline_met + stats[1].deadline_missed =
               stats[1].total_tasks

\* The statistics of two results, one that met its deadline and one that
\* missed it.
C18_Witness ==
    /\ op = "get_statistics"
    /\ Len(results) = 2
    /\ results[1].deadline_met # results[2].deadline_met
    /\ stats[1].deadline_met = 1
    /\ stats[1].deadline_missed = 1

---------------------------------------------------------------------------
\* C19: throughput is completed_tasks / total_execution_time, and is 0
\* whenever total_execution_time is 0, also for a non-empty result list in
\* which every task has execution time 0.
C19_Throughput ==
    op = "get_statistics" =>
        IF stats[1].total_execution_time = 0
        THEN stats[1].throughput = Zero
        ELSE /\ stats[1].throughput.den # 0
             /\ stats[1].throughput.num * stats[1].total_execution_time =
                    stats[1].completed_tasks * stats[1].throughput.den

\* The statistics of a run of two tasks that both take no time.
C19_Witness ==
    /\ op = "get_statistics"
    /\ Len(results) = 2
    /\ stats[1].completed_tasks = 2
    /\ stats[1].total_execution_time = 0
    /\ stats[1].throughput = Zero

---------------------------------------------------------------------------
\* C20: schedule_tasks called again on the same Task list, the priorities
\* being distinct, returns the result sequence of the call before: the same
\* task_ids in the same order with the same start, completion, wait and
\* deadline values.
C20_Deterministic ==
    [][(/\ n_calls > 0
        /\ n_calls' = n_calls + 1
        /\ \A s, t \in Range(tasks) : s # t => prio[s] # prio[t])
       => results' = results]_vars

\* A second call on three tasks of distinct priorities that take time.
C20_Witness ==
    /\ op = "schedule_tasks"
    /\ n_calls = 2
    /\ Len(results) = 3
    /\ \A s, t \in Range(tasks) : s # t => prio[s] # prio[t]
    /\ results[3].start_time > 0

---------------------------------------------------------------------------
\* What a brand-new TaskScheduler (empty queue, clock 0) returns for ts.
FreshResults(ts) ==
    execute(insert_all(<< >>, ts, TRUE, prio), prio, attrs, 0, << >>).results

\* C21: schedule_tasks(B) on a TaskScheduler that has already run
\* schedule_tasks(A) returns exactly what a brand-new TaskScheduler returns
\* for B: only tasks of B are named by the results and the first start_time
\* is 0.
C21_FreshRunPerCall ==
    [][(op' = "schedule_tasks" /\ n_calls > 0) =>
           /\ results' = FreshResults(tasks')
           /\ \A i \in 1..Len(results') : results'[i].task_id \in Range(tasks')
           /\ results' # << >> => results'[1].start_time = 0]_vars

\* A second call on a one-task list, after a first call on a two-task list
\* whose statistics were taken.
C21_Witness ==
    /\ op = "schedule_tasks"
    /\ n_calls = 2
    /\ stats # << >>
    /\ stats[1].total_tasks = 2
    /\ stats[1].total_execution_time = 2
    /\ Len(tasks) = 1
    /\ Len(results) = 1
    /\ results[1].start_time = 0

---------------------------------------------------------------------------
\* C22: a schedule_tasks call on a finite list terminates: every iteration
\* of its while loop removes exactly one item from the heap, the sift-up and
\* sift-down loops inside it come to an end, and the call returns with the
\* heap empty after exactly len(tasks) extractions.
C22_Terminates ==
    /\ (pc = "insert") ~> (pc = "done")
    /\ [][(pc = "extract" /\ pc' # "done") => Len(heap') = Len(heap) - 1]_vars
    /\ [][(pc \in {"sift_down", "extracted"}) => Len(heap') = Len(heap)]_vars
    /\ [](pc = "done" => (is_empty(heap) /\ Len(results) = Len(tasks)))

\* A finished call on three tasks in which both an inserted task was sifted
\* up (the second) and a moved task was sifted down (the third).
C22_Witness ==
    /\ pc = "done"
    /\ Len(tasks) = 3
    /\ prio[2] > prio[1]
    /\ prio[1] > prio[3]
    /\ [i \in 1..3 |-> results[i].task_id] = <<2, 1, 3>>
    /\ is_empty(heap)

---------------------------------------------------------------------------
\* C23: is_overdue(now) is true exactly when the task has a deadline and
\* now > deadline: false without a deadline at every time, and false when
\* now equals the deadline.
C23_IsOverdue ==
    op = "is_overdue" =>
        LET deadline == attrs[arg].deadline
        IN  /\ (ret = "True") <=>
                   (deadline # << >> /\ current_time > deadline[1])
            /\ ret \in {"True", "False"}
            /\ deadline = << >> => ret = "False"
            /\ deadline = <<current_time>> => ret = "False"

\* is_overdue asked at the very time of the deadline.
C23_Witness ==
    /\ op = "is_overdue"
    /\ current_time > 0
    /\ attrs[arg].deadline = <<current_time>>
    /\ ret = "False"

---------------------------------------------------------------------------
\* C24: time_until_deadline(now) returns None for a task without a deadline
\* and otherwise max(0, deadline - now): never negative, and 0 at or after
\* the deadline.
C24_TimeUntilDeadline ==
    op = "time_until_deadline" =>
        LET deadline == attrs[arg].deadline
        IN  IF deadline = << >>
            THEN ret = "None"
            ELSE /\ ret = "time"
                 /\ ret_item >= 0
                 /\ ret_item >= deadline[1] - current_time
                 /\ ret_item \in {0, deadline[1] - current_time}
                 /\ current_time >= deadline[1] => ret_item = 0

\* time_until_deadline asked after the deadline has passed.
C24_Witness ==
    /\ op = "time_until_deadline"
    /\ attrs[arg].deadline # << >>
    /\ current_time > attrs[arg].deadline[1]
    /\ ret = "time"
    /\ ret_item = 0

---------------------------------------------------------------------------
\* C25: <, >, <=, >= and == on two Tasks give the result of the same
\* comparison on their priorities, whatever their other fields, and exactly
\* one of a < b, a == b, a > b holds.
C25_OrderByPriority ==
    /\ op = "__lt__" => ((ret = "True") <=> (prio[arg] < prio[other]))
    /\ op = "__gt__" => ((ret = "True") <=> (prio[arg] > prio[other]))
    /\ op = "__eq__" => ((ret = "True") <=> (prio[arg] = prio[other]))
    /\ op = "__le__" => ((ret = "True") <=> (prio[arg] <= prio[other]))
    /\ op = "__ge__" => ((ret = "True") <=> (prio[arg] >= prio[other]))
    /\ \A a, b \in DOMAIN prio :
           Cardinality({r \in {"lt", "eq", "gt"} :
                           \/ r = "lt" /\ task_lt(prio, a, b)
                           \/ r = "eq" /\ task_eq(prio, a, b)
                           \/ r = "gt" /\ task_gt(prio, a, b)}) = 1

\* Two different Tasks of one priority, with different arrival times and
\* deadlines, compared with ==.
C25_Witness ==
    /\ op = "__eq__"
    /\ arg # other
    /\ prio[arg] = prio[other]
    /\ attrs[arg].arrival_time # attrs[other].arrival_time
    /\ attrs[arg].deadline # attrs[other].deadline
    /\ ret = "True"

---------------------------------------------------------------------------
\* The child slot c of the sift position holds an item that should be above
\* the item at the sift position.
Displaces(c) ==
    c < Len(heap) /\ compare(is_max_heap, prio, At(heap, c), At(heap, index))

\* C26: a pass of sift-down after an extraction swaps the node with the
\* child that should be the new parent among the children that should
\* displace it, with the left child when both should and they tie, and
\* stops when neither child should displace the node or the node is a leaf.
C26_SiftDownChoice ==
    [][pc = "sift_down" =>
        LET left  == 2 * index + 1
            right == 2 * index + 2
        IN  IF ~Displaces(left) /\ ~Displaces(right)
            THEN heap' = heap /\ pc' = "extracted"
            ELSE LET chosen ==
                         IF Displaces(left) /\ Displaces(right)
                         THEN IF compare(is_max_heap, prio, At(heap, right),
                                         At(heap, left))
                              THEN right ELSE left
                         ELSE IF Displaces(left) THEN left ELSE right
                 IN  /\ heap' = Swap(heap, index, chosen)
                     /\ index' = chosen
                     /\ pc' = "sift_down"
                     /\ \A c \in {left, right} :
                            c < Len(heap) =>
                                ~compare(is_max_heap, prio, At(heap', c),
                                         At(heap', (c - 1) \div 2))
                     /\ (/\ Displaces(left)
                         /\ Displaces(right)
                         /\ key(prio, At(heap, left)) = key(prio, At(heap, right)))
                            => chosen = left]_vars

\* The root was just swapped with its left child, which ties with the right
\* child, both of them above the item that was moved into the root.
C26_Witness ==
    /\ pc = "sift_down"
    /\ index = 1
    /\ Len(heap) >= 3
    /\ key(prio, At(heap, 0)) = key(prio, At(heap, 2))
    /\ compare(is_max_heap, prio, At(heap, 0), At(heap, 1))

---------------------------------------------------------------------------
\* C27: Task.update_priority called directly on a task inside a heap raises
\* no error and does not touch the heap list, and no later queue operation
\* detects a violated invariant: insert, peek and the extractions return as
\* they always do, the extractions handing out the root whatever it is.
C27_DirectUpdateUnchecked ==
    [][/\ op' = "update_priority" =>
              (ret' = "None" /\ heap' = heap /\ is_max_heap' = is_max_heap)
       /\ op' = "insert" => ret' = "None"
       /\ (op' = "peek" /\ ~is_empty(heap)) =>
              (ret' = "item" /\ ret_item' = At(heap, 0))
       /\ (op' \in ExtractOps /\ ~is_empty(heap)) =>
              /\ ret' = "item"
              /\ ret_item' = At(heap, 0)
              /\ Len(heap') = Len(heap) - 1]_vars

\* An extraction from a max-heap that returned an item while an item of
\* higher priority stayed in the heap.
C27_Witness ==
    /\ op = "extract_max"
    /\ ret = "item"
    /\ is_max_heap
    /\ \E t \in Range(heap) : prio[t] > prio[ret_item]

---------------------------------------------------------------------------
\* C28: in a max-heap whose priorities are pairwise distinct at every step,
\* with increase_key only called with a priority >= the item's and
\* decrease_key only with one <= it, the heap invariant holds after every
\* insert, extract_max, increase_key and decrease_key, and the item found
\* and re-positioned by an update is the item passed.
C28_DisciplinedUpdates ==
    /\ [](HeapOK(heap, is_max_heap, prio))
    /\ [][op' \in KeyOps =>
             IF arg' \in Range(heap)
             THEN /\ ret' = "True"
                  /\ At(heap, index') = arg'
                  /\ \A t \in Tasks : t # arg' => prio'[t] = prio[t]
                  /\ Range(heap') = Range(heap)
             ELSE /\ ret' = "False"
                  /\ heap' = heap
                  /\ prio' = prio]_vars

\* decrease_key took the root of a three-item heap down, another item
\* taking its place.
C28_Witness ==
    /\ op = "decrease_key"
    /\ ret = "True"
    /\ Len(heap) = 3
    /\ index = 0
    /\ At(heap, 0) # arg
    /\ HeapOK(heap, is_max_heap, prio)

---------------------------------------------------------------------------
\* How many slots of list h hold item t.
Count(h, t) == Cardinality({i \in 1..Len(h) : h[i] = t})

\* C29: the heap holds exactly the inserted items minus the extracted ones:
\* insert adds one occurrence of its item, an extraction removes one
\* occurrence of the item it returns, which was in the heap, and no other
\* call (peek, increase_key, decrease_key, with their sifts) changes how
\* often any item occurs.
C29_ItemConservation ==
    [][\A t \in Tasks :
          Count(heap', t) =
              IF op' = "insert" /\ arg' = t
              THEN Count(heap, t) + 1
              ELSE IF op' \in ExtractOps /\ ret' = "item" /\ ret_item' = t
                   THEN Count(heap, t) - 1
                   ELSE Count(heap, t)]_vars

\* increase_key took a non-root item of a three-item heap up to the root.
C29_Witness ==
    /\ op = "increase_key"
    /\ ret = "True"
    /\ Len(heap) = 3
    /\ index > 0
    /\ At(heap, 0) = arg
    /\ \A t \in Tasks : Count(heap, t) = 1

---------------------------------------------------------------------------
\* An extraction step does the same whichever of the two methods is called:
\* IndexError on the empty list, else the root returned and the list left as
\* pop_root leaves it.
SameExtraction ==
    op' \in ExtractOps =>
        IF is_empty(heap)
        THEN ret' = "IndexError" /\ heap' = heap
        ELSE /\ ret' = "item"
             /\ ret_item' = At(heap, 0)
             /\ heap' = pop_root(heap, is_max_heap, prio)

\* The item an extraction returns is a minimum of a min-heap and a maximum
\* of a max-heap, whichever of the two methods is called.
ExtremumOfMode ==
    (op' \in ExtractOps /\ ret' = "item") =>
        \A t \in Range(heap) :
            IF is_max_heap THEN prio[ret_item'] >= prio[t]
                           ELSE prio[ret_item'] <= prio[t]

\* C30: extract_max and extract_min are the same operation in either mode
\* (both return the root and leave the same heap), so that extract_max on a
\* min-heap returns a minimum-priority item and extract_min on a max-heap a
\* maximum-priority item; no operation changes is_max_heap.
C30_ExtractsCoincide ==
    [][/\ SameExtraction
       /\ ExtremumOfMode
       /\ is_max_heap' = is_max_heap]_vars

---------------------------------------------------------------------------
\* The task_ids of a result list, in order.
TaskIds(res) == [i \in 1..Len(res) |-> res[i].task_id]

\* The Tasks of queue h in the order extract_max returns them: a function of
\* the queue and of the priorities alone.
RECURSIVE ExtractionOrder(_, _)
ExtractionOrder(h, p) ==
    IF is_empty(h)
    THEN << >>
    ELSE <<At(h, 0)>> \o ExtractionOrder(pop_root(h, TRUE, p), p)

\* C31: the order of the task_ids in the result of schedule_tasks is the one
\* the input order and the priorities give, whatever the arrival times,
\* deadlines and execution times of the Tasks are: lists that agree on
\* task_id and priority position by position yield the same sequence.
C31_OrderIgnoresTiming ==
    op = "schedule_tasks" =>
        TaskIds(results) =
            ExtractionOrder(insert_all(<< >>, tasks, TRUE, prio), prio)

\* Two Tasks of one priority that differ in every other field were scheduled,
\* the one that takes longer and arrives later first.
C31_Witness ==
    /\ op = "schedule_tasks"
    /\ Len(results) = 2
    /\ LET a == results[1].task_id
           b == results[2].task_id
       IN  /\ prio[a] = prio[b]
           /\ attrs[a].execution_time > attrs[b].execution_time
           /\ attrs[a].arrival_time > attrs[b].arrival_time
           /\ attrs[a].deadline # attrs[b].deadline

---------------------------------------------------------------------------
\* The first Task of list ts, in list order, among those of the highest
\* priority.
FirstOfHighest(ts, p) ==
    LET first == SetMin({i \in DOMAIN ts :
                            \A j \in DOMAIN ts : p[ts[i]] >= p[ts[j]]})
    IN  ts[first]

\* C32: the root of a max-heap built from an empty one by insert calls alone
\* is the earliest-inserted item among those of the maximum priority, and so
\* the first result of schedule_tasks is the first Task of the input, in
\* input order, among those of the highest priority.
C32_EarliestOfHighestFirst ==
    tasks # << >> =>
        /\ At(insert_all(<< >>, tasks, TRUE, prio), 0) =
               FirstOfHighest(tasks, prio)
        /\ op = "schedule_tasks" =>
               results[1].task_id = FirstOfHighest(tasks, prio)

\* Three Tasks were scheduled, the last two sharing the highest priority:
\* the second one of the input came out first, the third one after it.
C32_Witness ==
    /\ op = "schedule_tasks"
    /\ Len(tasks) = 3
    /\ prio[tasks[2]] = prio[tasks[3]]
    /\ prio[tasks[1]] < prio[tasks[2]]
    /\ results[1].task_id = tasks[2]
    /\ results[2].task_id = tasks[3]

---------------------------------------------------------------------------
\* C33: schedule_tasks never waits for a Task to arrive: every start_time is
\* the sum of the execution times of the Tasks processed before it, whatever
\* the arrival times are, so a Task may start before it arrived, and its
\* wait_time is negative exactly when its arrival_time is after its
\* start_time.
C33_NeverWaitsForArrival ==
    \A i \in 1..Len(results) :
        LET task   == results[i].task_id
            before == SubSeq(TaskIds(results), 1, i - 1)
        IN  /\ results[i].start_time = SumExec(before, attrs)
            /\ results[i].wait_time < 0 <=>
                   attrs[task].arrival_time > results[i].start_time

\* The Task scheduled first started at 0, before it arrived, and took time;
\* the second one started on its completion.
C33_Witness ==
    /\ op = "schedule_tasks"
    /\ Len(results) = 2
    /\ results[1].start_time < attrs[results[1].task_id].arrival_time
    /\ results[1].wait_time < 0
    /\ results[2].start_time > 0
    /\ results[2].wait_time >= 0

---------------------------------------------------------------------------
\* C34: schedule_tasks leaves its input as it was: the list keeps its length
\* and order, and no Task in it changes priority, arrival_time, deadline or
\* execution_time (a Task's task_id is its identity here); get_statistics
\* changes neither the results it is given nor the scheduler's clock or
\* queue.
C34_InputsUnchanged ==
    [][/\ op' = "schedule_tasks" =>
              /\ tasks' = tasks
              /\ prio' = prio
              /\ attrs' = attrs
       /\ op' = "get_statistics" =>
              /\ results' = results
              /\ current_time' = current_time
              /\ heap' = heap]_vars

\* get_statistics was called on the results of a run over two Tasks that
\* moved the clock.
C34_Witness ==
    /\ op = "get_statistics"
    /\ Len(tasks) = 2
    /\ Len(results) = 2
    /\ current_time > 0
    /\ stats[1].total_tasks = 2

---------------------------------------------------------------------------
\* How many times v occurs in list a.
Occurrences(a, v) == Cardinality({i \in DOMAIN a : a[i] = v})

\* Lists a and b hold the same elements, each as many times.
Permutation(a, b) ==
    /\ Len(a) = Len(b)
    /\ \A v \in Range(a) \cup Range(b) : Occurrences(a, v) = Occurrences(b, v)

\* List a is in non-decreasing order of key k.
SortedByKey(a, k) ==
    \A i \in 1..(Len(a) - 1) : apply_key(k, a[i]) <= apply_key(k, a[i + 1])

\* C35: for every input list (empty, one element, duplicates, negative
\* values, sorted or reverse sorted) the list heapsort returns is in
\* non-decreasing order of key and is a permutation of the input.
C35_SortedPermutation ==
    op = "heapsort" =>
        /\ SortedByKey(returned, key_fn)
        /\ Permutation(returned, old_arr)

\* heapsort was given four elements in reverse order, with a duplicate and a
\* negative value, and returned them reordered.
C35_Witness ==
    /\ op = "heapsort"
    /\ key_fn = "identity"
    /\ Len(old_arr) = 4
    /\ \A i \in 1..3 : old_arr[i] >= old_arr[i + 1]
    /\ old_arr[1] = old_arr[2]
    /\ old_arr[4] < 0
    /\ returned # old_arr

---------------------------------------------------------------------------
\* C36: heapsort with inplace=True sorts the list it was given and returns
\* that very list; with inplace=False it returns a new sorted list and the
\* list it was given keeps its contents and order.
C36_InplaceOrCopy ==
    op = "heapsort" =>
        /\ SortedByKey(returned, key_fn)
        /\ inplace => (returned_arr /\ arr = returned)
        /\ ~inplace => (~returned_arr /\ arr = old_arr)

---------------------------------------------------------------------------
\* List a is a valid max-heap under key k: no parent is below a child.
MaxHeapOK(a, k) ==
    \A i \in 0..(Len(a) - 1) :
        /\ 2 * i + 1 < Len(a) =>
               apply_key(k, At(a, i)) >= apply_key(k, At(a, 2 * i + 1))
        /\ 2 * i + 2 < Len(a) =>
               apply_key(k, At(a, i)) >= apply_key(k, At(a, 2 * i + 2))

\* C37: heap_extract_max on a valid non-empty max-heap list returns the
\* maximum element, shortens the list by exactly one and leaves a valid
\* max-heap; on an empty list it raises IndexError and the list stays empty.
C37_ExtractMaxOnHeap ==
    (op = "heap_extract_max" /\ MaxHeapOK(old_arr, key_fn)) =>
        IF old_arr = << >>
        THEN ret = "IndexError" /\ arr = << >>
        ELSE /\ ret = "max_val"
             /\ ret_item \in Range(old_arr)
             /\ \A i \in DOMAIN old_arr :
                    apply_key(key_fn, ret_item) >= apply_key(key_fn, old_arr[i])
             /\ Len(arr) = Len(old_arr) - 1
             /\ MaxHeapOK(arr, key_fn)

\* The maximum was extracted from a heap of four elements and the right
\* child of the root, above the element moved in from the end, took its
\* place.
C37_Witness ==
    /\ op = "heap_extract_max"
    /\ key_fn = "identity"
    /\ MaxHeapOK(old_arr, key_fn)
    /\ Len(old_arr) = 4
    /\ ret_item = At(old_arr, 0)
    /\ At(old_arr, 2) > At(old_arr, 3)
    /\ At(arr, 0) = At(old_arr, 2)
    /\ At(arr, 2) = At(old_arr, 3)

---------------------------------------------------------------------------
\* C38: heap_insert on a valid max-heap list lengthens it by exactly one,
\* keeps every previous element and leaves a valid max-heap; an item above
\* all the elements ends at the root.
C38_InsertOnHeap ==
    (op = "heap_insert" /\ MaxHeapOK(old_arr, key_fn)) =>
        /\ Len(arr) = Len(old_arr) + 1
        /\ Permutation(arr, Append(old_arr, arg))
        /\ MaxHeapOK(arr, key_fn)
        /\ (\A i \in DOMAIN old_arr :
                apply_key(key_fn, arg) > apply_key(key_fn, old_arr[i])) =>
               At(arr, 0) = arg

\* An item above all three elements of a heap was inserted: it went up two
\* levels to the root.
C38_Witness ==
    /\ op = "heap_insert"
    /\ MaxHeapOK(old_arr, key_fn)
    /\ Len(old_arr) = 3
    /\ \A i \in DOMAIN old_arr :
           apply_key(key_fn, arg) > apply_key(key_fn, old_arr[i])
    /\ At(arr, 0) = arg
    /\ At(arr, 1) = At(old_arr, 0)
    /\ At(arr, 3) = At(old_arr, 1)

---------------------------------------------------------------------------
---------------------------------------------------------------------------
\* C40: _build_max_heap turns any list into a valid max-heap over the same
\* elements: afterwards arr[i] >= arr[2i+1] and arr[i] >= arr[2i+2] for
\* every index i whose children exist, and arr[0] is the maximum.
C40_BuildMaxHeap ==
    op = "_build_max_heap" =>
        /\ MaxHeapOK(arr, key_fn)
        /\ Permutation(arr, old_arr)
        /\ \A i \in DOMAIN arr :
               apply_key(key_fn, At(arr, 0)) >= apply_key(key_fn, arr[i])

\* _build_max_heap was given four elements that were no heap, the largest
\* one last, and brought it to the root.
C40_Witness ==
    /\ op = "_build_max_heap"
    /\ key_fn = "identity"
    /\ Len(old_arr) = 4
    /\ ~MaxHeapOK(old_arr, key_fn)
    /\ \A i \in 1..3 : old_arr[4] > old_arr[i]
    /\ At(arr, 0) = old_arr[4]

===========================================================================
